---- MODULE Spec2Model ----
(***************************************************************************)
(* Hybrid RAG backend (AI_Planet): the ingestion pipeline and the query    *)
(* router of the three implementations of the design,                      *)
(*   "full"       services/hybrid_rag_service.py   (ChromaDB + Neo4j + LLM)*)
(*   "simple"     services/hybrid_rag_simple.py    (ChromaDB + in-memory)  *)
(*   "standalone" standalone_hybrid_rag.py         (in-memory lists)       *)
(* Texts are strings; every text function works on characters, as the      *)
(* Python code does.                                                       *)
(***************************************************************************)
EXTENDS Integers, Sequences, FiniteSets, TLC

(***************************************************************************)
(* State                                                                   *)
(***************************************************************************)
VARIABLES
    calls,               \* the table Calls, worked out once for the behaviour
    svc,                 \* the implementation this process runs
    llm,                 \* full: "real" (Qwen2, OpenAI, Gemini) or "fake" (FakeListLLM)
    fake_i,              \* full: FakeListLLM.i, the index of its next response
    vectorstore,         \* full: the entries of the Chroma collection
    graph,               \* full: the Neo4j graph, [nodes, edges]
    collection_ok,       \* simple: self.collection is not None
    model,               \* simple, standalone: self.model ("none" when it is None)
    collection,          \* simple: the entries of the Chroma collection
    relationships,       \* simple: self.relationships, once it is set
    chunks_store,        \* standalone: the global chunks_store
    relationships_store, \* standalone: the global relationships_store
    pc,                  \* where the running ingest_data call stands
    run,                 \* the locals of the running (or last) ingest_data call
    prev,                \* what the ingest_data call before that one came to
    report,              \* what the last ingest_data call returned
    runs,                \* ingest_data calls started
    returned,            \* ingest_data calls that returned
    queries,             \* query calls made
    route,               \* the last router call: question, response, decision
    reply,               \* what the last query call came to: the envelope
    routed,              \* every <<question, decision, runs>> of a heuristic router call
    unit,                \* a function or script run on its own: its input and result
    embedded             \* simple: the POST /api/embed-doc calls made, and the last response

vars == <<calls, svc, llm, fake_i, vectorstore, graph, collection_ok, collection,
          relationships, chunks_store, relationships_store, pc, run, prev,
          report, runs, returned, queries, route, routed, model, reply, unit,
          embedded>>

(***************************************************************************)
(* Python str primitives                                                   *)
(***************************************************************************)
\* s[a-1:b], clipped to the string as a Python slice is
Slice(s, a, b) ==
    IF a > Len(s) \/ b < a THEN ""
    ELSE SubSeq(s, a, IF b > Len(s) THEN Len(s) ELSE b)

At(s, i) == Slice(s, i, i)

UpperChars == "ABCDEFGHIJKLMNOPQRSTUVWXYZ"
LowerChars == "abcdefghijklmnopqrstuvwxyz"
DigitChars == "0123456789_"

CharSet(s) == {At(s, i) : i \in 1..Len(s)}

\* \w of the re module, on the ASCII alphabet of the model
WordCharSet == CharSet(UpperChars) \cup CharSet(LowerChars) \cup CharSet(DigitChars)
\* \s of the re module and the characters str.strip() removes
SpaceCharSet == {" ", "\n", "\t", "\r"}

IsWordChar(c) == c \in WordCharSet
IsSpaceChar(c) == c \in SpaceCharSet

LowerChar(c) ==
    IF c \in CharSet(UpperChars)
    THEN At(LowerChars, CHOOSE i \in 1..26 : At(UpperChars, i) = c)
    ELSE c

UpperChar(c) ==
    IF c \in CharSet(LowerChars)
    THEN At(UpperChars, CHOOSE i \in 1..26 : At(LowerChars, i) = c)
    ELSE c

Range(seq) == {seq[k] : k \in 1..Len(seq)}
Min(S) == CHOOSE m \in S : \A k \in S : m <= k
Max(S) == CHOOSE m \in S : \A k \in S : m >= k

\* a for loop over seq[lo..hi] with loop state acc: Op is the loop body.
\* The range is halved, and the left half is evaluated before the right one
\* starts, so that long loops evaluate in shallow depth.
RECURSIVE FoldRange(_, _, _, _, _)
FoldRange(Op(_, _), acc, seq, lo, hi) ==
    IF lo > hi THEN acc
    ELSE IF lo = hi THEN Op(acc, seq[lo])
    ELSE LET mid  == (lo + hi) \div 2
             left == FoldRange(Op, acc, seq, lo, mid)
         IN  IF left = left THEN FoldRange(Op, left, seq, mid + 1, hi) ELSE acc

FoldLeft(Op(_, _), acc, seq) == FoldRange(Op, acc, seq, 1, Len(seq))

\* a while loop that runs at most n times: Body does nothing once its
\* condition is false
Iterate(Body(_, _), acc, n) == FoldRange(Body, acc, [i \in 1..n |-> i], 1, n)

\* str.lower(), by halves so that the evaluation stays shallow
RECURSIVE lower(_)
lower(s) ==
    IF Len(s) = 0 THEN ""
    ELSE IF Len(s) = 1 THEN LowerChar(s)
    ELSE LET h == Len(s) \div 2
         IN  lower(SubSeq(s, 1, h)) \o lower(SubSeq(s, h + 1, Len(s)))

\* str.upper()
RECURSIVE upper(_)
upper(s) ==
    IF Len(s) = 0 THEN ""
    ELSE IF Len(s) = 1 THEN UpperChar(s)
    ELSE LET h == Len(s) \div 2
         IN  upper(SubSeq(s, 1, h)) \o upper(SubSeq(s, h + 1, Len(s)))

\* str.strip()
strip(s) ==
    LET keep == {i \in 1..Len(s) : ~IsSpaceChar(At(s, i))}
    IN  IF keep = {} THEN "" ELSE SubSeq(s, Min(keep), Max(keep))

\* `k in s`
Contains(s, k) ==
    \E i \in 1..(Len(s) - Len(k) + 1) : SubSeq(s, i, i + Len(k) - 1) = k

\* the positions >= from at which k occurs in s
Occurrences(s, k, from) ==
    {i \in from..(Len(s) - Len(k) + 1) : SubSeq(s, i, i + Len(k) - 1) = k}

\* str.split(sep): the pieces between the non-overlapping occurrences of
\* sep, taken left to right; always at least one piece
split(s, sep) ==
    LET occ == Occurrences(s, sep, 1)
        Body(st, k) ==
            LET rest == {i \in occ : i >= st.from}
            IN  IF st.from = 0 \/ rest = {} THEN st
                ELSE [pieces |-> Append(st.pieces, Slice(s, st.from, Min(rest) - 1)),
                      from   |-> Min(rest) + Len(sep)]
        last == Iterate(Body, [pieces |-> <<>>, from |-> 1], Cardinality(occ))
    IN  Append(last.pieces, Slice(s, last.from, Len(s)))

\* sep.join(parts), by halves so that the evaluation stays shallow
RECURSIVE join(_, _)
join(sep, parts) ==
    IF Len(parts) = 0 THEN ""
    ELSE IF Len(parts) = 1 THEN parts[1]
    ELSE LET h == Len(parts) \div 2
         IN  join(sep, SubSeq(parts, 1, h)) \o sep
             \o join(sep, SubSeq(parts, h + 1, Len(parts)))

\* str.replace(old, new)
replace(s, old, new) == join(new, split(s, old))

(***************************************************************************)
(* Structural chunker (simple service and standalone app)                  *)
(***************************************************************************)
\* the inner loop over the sentences of one long paragraph, and the flush
\* after it
PackSentences(sentences, packLen) ==
    LET Body(st, sentence) ==
            IF Len(st.current_chunk \o sentence) < packLen
            THEN [chunks |-> st.chunks,
                  current_chunk |-> st.current_chunk \o sentence \o ". "]
            ELSE [chunks |-> IF st.current_chunk # ""
                             THEN Append(st.chunks, strip(st.current_chunk))
                             ELSE st.chunks,
                  current_chunk |-> sentence \o ". "]
        last == FoldLeft(Body, [chunks |-> <<>>, current_chunk |-> ""], sentences)
    IN  IF last.current_chunk # ""
        THEN Append(last.chunks, strip(last.current_chunk))
        ELSE last.chunks

\* the chunks one paragraph contributes
ParagraphChunks(paragraph, minLen, maxLen, packLen) ==
    IF Len(strip(paragraph)) > minLen
    THEN IF Len(paragraph) > maxLen
         THEN PackSentences(split(paragraph, ". "), packLen)
         ELSE <<strip(paragraph)>>
    ELSE <<>>

\* the loop over the paragraphs
ChunkParagraphs(paragraphs, minLen, maxLen, packLen) ==
    LET Body(chunks, paragraph) ==
            chunks \o ParagraphChunks(paragraph, minLen, maxLen, packLen)
    IN  FoldLeft(Body, <<>>, paragraphs)

\* SimpleHybridRAGService._chunk_text
Simple_chunk_text(text) == ChunkParagraphs(split(text, "\n\n"), 50, 500, 400)

\* SimpleHybridRAG.chunk_text
Standalone_chunk_text(text) == ChunkParagraphs(split(text, "\n\n"), 50, 400, 350)

(***************************************************************************)
(* Pattern-based relation extraction: the six templates                    *)
(*   (\w+)\s+(?:V|V')\s+(\w+)   and, for is/are, ...\s+(?:a|an)?\s*(\w+)   *)
(* matched as re.finditer with re.IGNORECASE matches them.                 *)
(***************************************************************************)
\* the last index of the maximal run of characters of class C that starts at
\* p (p - 1 when the character at p is not in C); searched window by window
RECURSIVE RunEndW(_, _, _, _)
RunEndW(s, p, C, w) ==
    IF p > Len(s) THEN Len(s)
    ELSE LET hi    == IF p + w - 1 < Len(s) THEN p + w - 1 ELSE Len(s)
             stops == {i \in p..hi : At(s, i) \notin C}
         IN  IF stops # {} THEN Min(stops) - 1 ELSE RunEndW(s, hi + 1, C, 2 * w)

RunEnd(s, p, C) == RunEndW(s, p, C, 16)

NoMatch == [ok |-> FALSE, g1 |-> "", g2 |-> "", end |-> 0]

\* the final (\w+) at position p
TailWord(s, p, g1) ==
    LET e2 == RunEnd(s, p, WordCharSet)
    IN  IF e2 >= p THEN [ok |-> TRUE, g1 |-> g1, g2 |-> Slice(s, p, e2), end |-> e2]
        ELSE NoMatch

\* (?:a|an)?\s*(\w+) at position p: the alternatives in the order the regex
\* engine tries them: "a", then "an", then nothing
TailArticle(s, p, g1) ==
    LET afterA  == TailWord(s, RunEnd(s, p + 1, SpaceCharSet) + 1, g1)
        afterAn == TailWord(s, RunEnd(s, p + 2, SpaceCharSet) + 1, g1)
    IN  IF lower(Slice(s, p, p)) = "a" /\ afterA.ok THEN afterA
        ELSE IF lower(Slice(s, p, p + 1)) = "an" /\ afterAn.ok THEN afterAn
        ELSE TailWord(s, p, g1)

\* what follows the verb that ends at ve: \s+ and the object
AfterVerb(s, ve, g1, article) ==
    LET w2 == RunEnd(s, ve + 1, SpaceCharSet)
    IN  IF w2 < ve + 1 THEN NoMatch
        ELSE IF article THEN TailArticle(s, w2 + 1, g1) ELSE TailWord(s, w2 + 1, g1)

\* the verb alternatives at position p, in order
RECURSIVE TryVerbs(_, _, _, _, _, _)
TryVerbs(s, p, g1, verbs, k, article) ==
    IF k > Len(verbs) THEN NoMatch
    ELSE LET v == verbs[k]
             m == AfterVerb(s, p + Len(v) - 1, g1, article)
         IN  IF lower(Slice(s, p, p + Len(v) - 1)) = v /\ m.ok THEN m
             ELSE TryVerbs(s, p, g1, verbs, k + 1, article)

\* one match attempt of a template at start position p
MatchAt(s, p, pat) ==
    LET e1 == RunEnd(s, p, WordCharSet)
        w1 == RunEnd(s, e1 + 1, SpaceCharSet)
    IN  IF e1 < p \/ w1 < e1 + 1 THEN NoMatch
        ELSE TryVerbs(s, w1 + 1, Slice(s, p, e1), pat.verbs, 1, pat.article)

\* re.finditer: the leftmost match at or after the scan position, then on
\* from the end of that match
finditer(pat, s) ==
    LET attempt == [p \in 1..Len(s) |-> MatchAt(s, p, pat)]
        hits    == {p \in 1..Len(s) : attempt[p].ok}
        Body(st, k) ==
            LET rest == {p \in hits : p >= st.from}
            IN  IF rest = {} THEN st
                ELSE [matches |-> Append(st.matches, attempt[Min(rest)]),
                      from    |-> attempt[Min(rest)].end + 1]
    IN  Iterate(Body, [matches |-> <<>>, from |-> 1], Cardinality(hits)).matches

\* the templates, in the order of the patterns list
Patterns == <<
    [source |-> "(\\w+)\\s+(?:is|are)\\s+(?:a|an)?\\s*(\\w+)",
     verbs |-> <<"is", "are">>, article |-> TRUE, relation |-> "IS_A"],
    [source |-> "(\\w+)\\s+(?:has|have)\\s+(\\w+)",
     verbs |-> <<"has", "have">>, article |-> FALSE, relation |-> "HAS"],
    [source |-> "(\\w+)\\s+(?:uses|use)\\s+(\\w+)",
     verbs |-> <<"uses", "use">>, article |-> FALSE, relation |-> "USES"],
    [source |-> "(\\w+)\\s+(?:provides|provide)\\s+(\\w+)",
     verbs |-> <<"provides", "provide">>, article |-> FALSE, relation |-> "PROVIDES"],
    [source |-> "(\\w+)\\s+(?:includes|include)\\s+(\\w+)",
     verbs |-> <<"includes", "include">>, article |-> FALSE, relation |-> "INCLUDES"],
    [source |-> "(\\w+)\\s+(?:supports|support)\\s+(\\w+)",
     verbs |-> <<"supports", "support">>, article |-> FALSE, relation |-> "SUPPORTS"] >>

\* faulty variant: the is/are test is missing, so the first template falls
\* through to the default predicate
SimpleRelation_without_is(pattern) ==
    IF Contains(pattern, "has") \/ Contains(pattern, "have") THEN "HAS"
    ELSE IF Contains(pattern, "uses") \/ Contains(pattern, "use") THEN "USES"
    ELSE IF Contains(pattern, "provides") \/ Contains(pattern, "provide") THEN "PROVIDES"
    ELSE IF Contains(pattern, "includes") \/ Contains(pattern, "include") THEN "INCLUDES"
    ELSE IF Contains(pattern, "supports") \/ Contains(pattern, "support") THEN "SUPPORTS"
    ELSE "RELATES_TO"

\* the predicate the simple service derives from the template's text
SimpleRelation(pattern) ==
    IF Contains(pattern, "has") \/ Contains(pattern, "have") THEN "HAS"
    ELSE IF Contains(pattern, "uses") \/ Contains(pattern, "use") THEN "USES"
    ELSE IF Contains(pattern, "provides") \/ Contains(pattern, "provide") THEN "PROVIDES"
    ELSE IF Contains(pattern, "includes") \/ Contains(pattern, "include") THEN "INCLUDES"
    ELSE IF Contains(pattern, "supports") \/ Contains(pattern, "support") THEN "SUPPORTS"
    ELSE IF Contains(pattern, "is") \/ Contains(pattern, "are") THEN "IS_A"
    ELSE "RELATES_TO"

\* the triples of a list of matches; entities of 2 characters or fewer are dropped
MatchTriples(matches, relation) ==
    LET Body(found, match) ==
            LET entity1 == strip(match.g1)
                entity2 == strip(match.g2)
            IN  IF Len(entity1) > 2 /\ Len(entity2) > 2
                THEN Append(found, <<entity1, relation, entity2>>)
                ELSE found
    IN  FoldLeft(Body, <<>>, matches)

\* SimpleHybridRAGService._extract_relationships_simple
RECURSIVE SimpleExtractFrom(_, _)
SimpleExtractFrom(text, k) ==
    IF k > Len(Patterns) THEN <<>>
    ELSE MatchTriples(finditer(Patterns[k], text), SimpleRelation(Patterns[k].source))
         \o SimpleExtractFrom(text, k + 1)

Simple_extract_relationships_simple(text) == SimpleExtractFrom(text, 1)

\* SimpleHybridRAG.extract_relationships
RECURSIVE StandaloneExtractFrom(_, _)
StandaloneExtractFrom(text, k) ==
    IF k > Len(Patterns) THEN <<>>
    ELSE MatchTriples(finditer(Patterns[k], text), Patterns[k].relation)
         \o StandaloneExtractFrom(text, k + 1)

Standalone_extract_relationships(text) == StandaloneExtractFrom(text, 1)

(***************************************************************************)
(* Fixed-window chunker of the full service:                               *)
(* RecursiveCharacterTextSplitter(chunk_size=300, chunk_overlap=50) with   *)
(* its default separators, keep_separator and strip_whitespace.            *)
(***************************************************************************)
chunk_size == 300
chunk_overlap == 50
Separators == <<"\n\n", "\n", " ", "">>

\* the characters of a string, one per element: list(text)
CharList(text) == [i \in 1..Len(text) |-> At(text, i)]

NonEmpty(part) == part # ""

\* _split_text_with_regex with keep_separator: every separator stays at the
\* head of the piece that follows it; empty pieces are dropped
SplitKeep(text, separator) ==
    IF separator = "" THEN CharList(text)
    ELSE LET pieces == split(text, separator)
         IN  SelectSeq([i \in 1..Len(pieces) |->
                           IF i = 1 THEN pieces[1] ELSE separator \o pieces[i]],
                       NonEmpty)

\* _join_docs: the joined text stripped, <<>> standing for None
JoinDocs(docs, separator) ==
    LET text == strip(join(separator, docs))
    IN  IF text = "" THEN <<>> ELSE <<text>>

SumLen3(total, len, sepLen, n) == total + len + (IF n > 0 THEN sepLen ELSE 0)

\* the while loop of _merge_splits that drops pieces from the front of
\* current_doc until the overlap fits
PopFront(current_doc, total, len, sepLen) ==
    LET Body(st, k) ==
            IF st.total > chunk_overlap
               \/ (SumLen3(st.total, len, sepLen, Len(st.current_doc)) > chunk_size
                   /\ st.total > 0)
            THEN [current_doc |-> Tail(st.current_doc),
                  total |-> st.total - (Len(st.current_doc[1])
                                       + (IF Len(st.current_doc) > 1 THEN sepLen ELSE 0))]
            ELSE st
    IN  Iterate(Body, [current_doc |-> current_doc, total |-> total], Len(current_doc))

\* _merge_splits
MergeSplits(splits, separator) ==
    LET sepLen == Len(separator)
        Body(st, d) ==
            LET full == SumLen3(st.total, Len(d), sepLen, Len(st.current_doc)) > chunk_size
                        /\ Len(st.current_doc) > 0
                kept == IF full THEN PopFront(st.current_doc, st.total, Len(d), sepLen)
                        ELSE [current_doc |-> st.current_doc, total |-> st.total]
                next == Append(kept.current_doc, d)
            IN  [docs |-> IF full THEN st.docs \o JoinDocs(st.current_doc, separator)
                          ELSE st.docs,
                 current_doc |-> next,
                 total |-> kept.total + Len(d) + (IF Len(next) > 1 THEN sepLen ELSE 0)]
        last == FoldLeft(Body, [docs |-> <<>>, current_doc |-> <<>>, total |-> 0], splits)
    IN  last.docs \o JoinDocs(last.current_doc, separator)

\* the first separator of the list that is "" or occurs in the text
RECURSIVE PickSeparator(_, _, _)
PickSeparator(text, separators, i) ==
    IF i >= Len(separators) \/ separators[i] = "" \/ Contains(text, separators[i])
    THEN i
    ELSE PickSeparator(text, separators, i + 1)

\* RecursiveCharacterTextSplitter._split_text
RECURSIVE SplitText(_, _)
SplitText(text, separators) ==
    LET k         == PickSeparator(text, separators, 1)
        separator == separators[k]
        found     == separator # "" /\ Contains(text, separator)
        new_separators == IF found THEN SubSeq(separators, k + 1, Len(separators))
                          ELSE <<>>
        Flush(good_splits) ==
            IF Len(good_splits) > 0 THEN MergeSplits(good_splits, "") ELSE <<>>
        Body(st, piece) ==
            IF Len(piece) < chunk_size
            THEN [final_chunks |-> st.final_chunks,
                  good_splits  |-> Append(st.good_splits, piece)]
            ELSE [final_chunks |-> st.final_chunks \o Flush(st.good_splits)
                                   \o (IF Len(new_separators) = 0 THEN <<piece>>
                                       ELSE SplitText(piece, new_separators)),
                  good_splits  |-> <<>>]
        last == FoldLeft(Body, [final_chunks |-> <<>>, good_splits |-> <<>>],
                         SplitKeep(text, separator))
    IN  last.final_chunks \o Flush(last.good_splits)

\* HybridRAGService._chunk_text
Full_chunk_text(text) == SplitText(text, Separators)

(***************************************************************************)
(* Generative extraction: the parse of the generator's response            *)
(***************************************************************************)
FirstAt(s, c, from) ==
    LET occ == Occurrences(s, c, from) IN IF occ = {} THEN 0 ELSE Min(occ)

\* one attempt of \(([^,]+),\s*([^,]+),\s*([^)]+)\) at the "(" at p: the
\* groups run to the next comma, the next comma and the next ")", and none
\* may be empty; the groups are stripped, so the blanks \s* takes do not show
TripleAt(line, p) ==
    LET c1 == FirstAt(line, ",", p + 1)
        c2 == IF c1 = 0 THEN 0 ELSE FirstAt(line, ",", c1 + 1)
        r  == IF c2 = 0 THEN 0 ELSE FirstAt(line, ")", c2 + 1)
    IN  IF At(line, p) = "(" /\ c1 >= p + 2 /\ c2 >= c1 + 2 /\ r >= c2 + 2
        THEN << <<strip(Slice(line, p + 1, c1 - 1)),
                  strip(Slice(line, c1 + 1, c2 - 1)),
                  strip(Slice(line, c2 + 1, r - 1))>> >>
        ELSE <<>>

\* re.search on one line: the leftmost position where the attempt succeeds
LineTriples(line) ==
    LET starts == {p \in 1..Len(line) : TripleAt(line, p) # <<>>}
    IN  IF starts = {} THEN <<>> ELSE TripleAt(line, Min(starts))

\* the parsing half of _extract_entities_and_relationships
ParseTriples(response) ==
    LET Body(triples, line) == triples \o LineTriples(line)
    IN  FoldLeft(Body, <<>>, split(response, "\n"))

(***************************************************************************)
(* Relationship index of the full service: the clean-up before MERGE       *)
(***************************************************************************)
CleanEntity(name) == strip(replace(replace(name, "\"", ""), "'", ""))

CleanRelation(relation) ==
    strip(upper(replace(replace(replace(relation, "\"", ""), "'", ""), " ", "_")))

\* the triple cleaned as _store_triples_in_neo4j cleans it
CleanTriple(t) == <<CleanEntity(t[1]), CleanRelation(t[2]), CleanEntity(t[3])>>

\* `if head and tail and relation`
Storable(t) == t[1] # "" /\ t[2] # "" /\ t[3] # ""

(***************************************************************************)
(* Query routers                                                           *)
(***************************************************************************)
Simple_graph_keywords ==
    <<"how does", "relate", "relationship", "connection", "connected",
      "links", "associated", "depends", "uses", "has", "includes">>
Simple_vector_keywords ==
    <<"what is", "define", "explain", "describe", "meaning",
      "overview", "summary", "about">>

Standalone_graph_keywords ==
    <<"how does", "relate", "relationship", "connection", "uses", "has">>
Standalone_vector_keywords ==
    <<"what is", "define", "explain", "describe", "about">>

AnyKeyword(keywords, question_lower) ==
    \E i \in 1..Len(keywords) : Contains(question_lower, keywords[i])

\* faulty variant: the semantic indicators are scanned first
Simple_route_query_vector_first(question) ==
    LET question_lower == lower(question)
    IN  IF AnyKeyword(Simple_vector_keywords, question_lower) THEN "vector"
        ELSE IF AnyKeyword(Simple_graph_keywords, question_lower) THEN "graph"
        ELSE "vector"

\* faulty variant: a router that looks at the relationship index
Simple_route_query_by_index(question) ==
    LET question_lower == lower(question)
    IN  IF relationships.list # <<>> THEN "graph"
        ELSE IF AnyKeyword(Simple_graph_keywords, question_lower) THEN "graph"
        ELSE IF AnyKeyword(Simple_vector_keywords, question_lower) THEN "vector"
        ELSE "vector"

\* SimpleHybridRAGService._route_query
Simple_route_query(question) ==
    LET question_lower == lower(question)
    IN  IF AnyKeyword(Simple_graph_keywords, question_lower) THEN "graph"
        ELSE IF AnyKeyword(Simple_vector_keywords, question_lower) THEN "vector"
        ELSE "vector"

\* faulty variant: a question with no indicator goes to the graph
Standalone_route_query_default_graph(question) ==
    LET question_lower == lower(question)
    IN  IF AnyKeyword(Standalone_graph_keywords, question_lower) THEN "graph"
        ELSE IF AnyKeyword(Standalone_vector_keywords, question_lower) THEN "vector"
        ELSE "graph"

\* SimpleHybridRAG.route_query
Standalone_route_query(question) ==
    LET question_lower == lower(question)
    IN  IF AnyKeyword(Standalone_graph_keywords, question_lower) THEN "graph"
        ELSE IF AnyKeyword(Standalone_vector_keywords, question_lower) THEN "vector"
        ELSE "vector"

\* what a call of self.llm.invoke comes to: a text, or an exception
Returned(text) == [raised |-> FALSE, text |-> text]
RAISE == [raised |-> TRUE, text |-> ""]

\* faulty variant: route_query without its try/except
Full_route_response_unguarded(response) ==
    IF response.raised THEN "raised"
    ELSE IF Contains(response.text, "(A)") \/ Contains(response.text, "Vector Search")
         THEN "vector"
    ELSE IF Contains(response.text, "(B)") \/ Contains(response.text, "Graph Query")
         THEN "graph"
    ELSE "vector"

\* HybridRAGService.route_query, given what self.llm.invoke returned
Full_route_response(response) ==
    IF response.raised THEN "vector"
    ELSE IF Contains(response.text, "(A)") \/ Contains(response.text, "Vector Search")
         THEN "vector"
    ELSE IF Contains(response.text, "(B)") \/ Contains(response.text, "Graph Query")
         THEN "graph"
    ELSE "vector"

(***************************************************************************)
(* The answer composer: retrieval and the answer built from it             *)
(***************************************************************************)
\* set(s.split()): the words of s between runs of whitespace
WordStarts(s) ==
    {i \in 1..Len(s) : ~IsSpaceChar(At(s, i))
                       /\ (i = 1 \/ IsSpaceChar(At(s, i - 1)))}
WordEnd(s, i) ==
    LET stops == {j \in i..Len(s) : IsSpaceChar(At(s, j))}
    IN  IF stops = {} THEN Len(s) ELSE Min(stops) - 1
WordSet(s) == {Slice(s, i, WordEnd(s, i)) : i \in WordStarts(s)}

\* the characters the texts are written in, in code point order, and ord(c)
CodeOrder ==
    "\t\n\r !\"#$%&'()*+,-./0123456789:;<=>?@ABCDEFGHIJKLMNOPQRSTUVWXYZ[\\]^_abcdefghijklmnopqrstuvwxyz{|}~"
Ord(c) == CHOOSE i \in 1..Len(CodeOrder) : At(CodeOrder, i) = c

\* a > b on str
StrGreater(a, b) ==
    LET differ == {i \in 1..Min({Len(a), Len(b)}) : At(a, i) # At(b, i)}
    IN  IF differ = {} THEN Len(a) > Len(b)
        ELSE Ord(At(a, Min(differ))) > Ord(At(b, Min(differ)))

\* x > y on the tuples (score, chunk, i)
ScoredGreater(x, y) ==
    \/ x[1] > y[1]
    \/ x[1] = y[1] /\ StrGreater(x[2], y[2])
    \/ x[1] = y[1] /\ x[2] = y[2] /\ x[3] > y[3]

\* scored_chunks.sort(reverse=True); the tuples differ in their index
SortReverse(scored) ==
    [k \in 1..Len(scored) |->
        CHOOSE x \in Range(scored) :
            Cardinality({y \in Range(scored) : ScoredGreater(y, x)}) = k - 1]

\* the bullet of the fact lines (U+2022), written with an ASCII character
Bullet == "*"

\* f"{Bullet} {entity1} {relation.replace('_', ' ').lower()} {entity2}"
FactLine(t) ==
    Bullet \o " " \o t[1] \o " " \o lower(replace(t[2], "_", " ")) \o " " \o t[3]

\* the triples an entity of which holds a word of the question:
\* any(word in entity1.lower() ...) or any(word in entity2.lower() ...)
Relevant(rels, question) ==
    LET question_words == WordSet(lower(question))
        Match(t) == \E word \in question_words :
                        \/ Contains(lower(t[1]), word)
                        \/ Contains(lower(t[3]), word)
    IN  SelectSeq(rels, Match)

\* "\n".join([... for entity1, relation, entity2 in relevant_relationships[:5]])
RelationshipText(relevant) ==
    join("\n", [k \in 1..Min({5, Len(relevant)}) |-> FactLine(relevant[k])])

\* what a search method hands back to query: result["answer"],
\* result["sources"], and what the method did on the way - the generator
\* calls it made, the hits its retrieval returned (-1 when the retrieval
\* returned nothing at all: it raised, or there is no index to ask), the
\* context it composed
Result(answer, sources, generated, hits, facts) ==
    [answer |-> answer, sources |-> sources, generated |-> generated,
     hits |-> hits, facts |-> facts]

\* str(e) of what list.get raises: query_embedding returns a list, and
\* _vector_search calls results.get('documents') on it
AttributeError == "'list' object has no attribute 'get'"
ChromaError == "Could not connect to a Chroma server"
GeminiError == "429 Resource has been exhausted"
ChainError == "chain failed"

\* vector_service.query_embedding on the entries of the collection: the
\* n_results nearest entries as dicts, here the first ones in store order
\* (the ranking is the embedding model's), or an exception of the client
query_embedding(entries, n_results) ==
    {[raised |-> FALSE,
      items |-> [k \in 1..Min({n_results, Len(entries)}) |->
                    [id |-> entries[k].id, text |-> entries[k].text,
                     metadata |-> entries[k].metadata]]],
     [raised |-> TRUE, items |-> <<>>]}

\* SimpleHybridRAGService._vector_search, given what query_embedding came to.
\* With a non-empty list `results.get` raises, so the statements after the
\* test (context, generator call, sources) are never reached.
Simple_vector_search(question, results) ==
    IF ~collection_ok
    THEN Result("ChromaDB not available", <<>>, 0, -1, "")
    ELSE IF results.raised
    THEN Result("Vector search error: " \o ChromaError, <<>>, 0, -1, "")
    ELSE IF results.items = <<>>
    THEN Result("No relevant information found", <<>>, 0, 0, "")
    ELSE Result("Vector search error: " \o AttributeError, <<>>, 0,
                Len(results.items), "")

\* SimpleHybridRAGService._graph_search, given what the generator call comes
\* to when it is made
Simple_graph_search(question, generation) ==
    IF ~relationships.set
    THEN Result("No relationships available", <<>>, 0, 0, "")
    ELSE LET relevant_relationships == Relevant(relationships.list, question)
             relationship_text == RelationshipText(relevant_relationships)
             sources == <<[source |-> "knowledge_graph",
                           relationships |-> Len(relevant_relationships)]>>
             hits == Len(relevant_relationships)
         IN  IF relevant_relationships = <<>>
             THEN Result("No relevant relationships found", <<>>, 0, 0, "")
             ELSE IF model = "none"
             THEN Result("Based on the relationships:\n" \o relationship_text,
                         sources, 0, hits, relationship_text)
             ELSE IF generation.raised
             THEN Result("Graph search error: " \o GeminiError, <<>>, 1, hits,
                         relationship_text)
             ELSE Result(generation.text, sources, 1, hits, relationship_text)

\* SimpleHybridRAG.vector_search of the standalone app
Standalone_vector_search(question, generation) ==
    IF chunks_store = <<>>
    THEN Result("No data ingested yet", <<>>, 0, 0, "")
    ELSE LET question_words == WordSet(lower(question))
             Score(chunk) ==
                 Cardinality(question_words \cap WordSet(lower(chunk)))
             all == [k \in 1..Len(chunks_store) |->
                        <<Score(chunks_store[k]), chunks_store[k], k - 1>>]
             Hit(x) == x[1] > 0
             scored_chunks == SortReverse(SelectSeq(all, Hit))
             top_chunks == [k \in 1..Min({3, Len(scored_chunks)}) |->
                               scored_chunks[k][2]]
             context == join("\n\n", top_chunks)
             sources == <<[type |-> "vector", chunks |-> Len(top_chunks)]>>
         IN  IF scored_chunks = <<>>
             THEN Result("No relevant information found", <<>>, 0, 0, "")
             ELSE IF model = "none"
             THEN Result("Based on the available information: "
                             \o Slice(context, 1, 300) \o "...",
                         sources, 0, Len(top_chunks), context)
             ELSE IF generation.raised
             THEN Result("Error generating response: " \o GeminiError,
                         sources, 1, Len(top_chunks), context)
             ELSE Result(generation.text, sources, 1, Len(top_chunks), context)

\* SimpleHybridRAG.graph_search of the standalone app
Standalone_graph_search(question, generation) ==
    IF relationships_store = <<>>
    THEN Result("No relationships available", <<>>, 0, 0, "")
    ELSE LET relevant_relationships == Relevant(relationships_store, question)
             relationship_text == RelationshipText(relevant_relationships)
             sources == <<[type |-> "graph",
                           relationships |-> Len(relevant_relationships)]>>
             hits == Len(relevant_relationships)
         IN  IF relevant_relationships = <<>>
             THEN Result("No relevant relationships found", <<>>, 0, 0, "")
             ELSE IF model = "none"
             THEN Result("Based on the relationships:\n" \o relationship_text,
                         sources, 0, hits, relationship_text)
             ELSE IF generation.raised
             THEN Result("Error generating response: " \o GeminiError,
                         sources, 1, hits, relationship_text)
             ELSE Result(generation.text, sources, 1, hits, relationship_text)

(***************************************************************************)
(* Inputs                                                                  *)
(***************************************************************************)
\* how many ingestion calls, how many queries, and how many calls of both
\* kinds one behaviour holds
MaxRuns == 2
MaxQueries == 2
MaxCalls == 3
MaxEmbeds == 1

\* the documents: file_path -> content; "missing.txt" names no readable file
Paragraph1 ==
    "FastAPI is a modern web framework and FastAPI has routers. The routers include path operations, and every router has its own prefix."
Paragraph2 ==
    "Pydantic provides validation. FastAPI uses Pydantic models for the request body, and Pydantic supports custom validators too."
Paragraph3 ==
    "Starlette is an ASGI toolkit and FastAPI uses Starlette underneath. FastAPI has routers and Starlette supports WebSocket routes too."

Files == [
    empty |-> "",
    tiny  |-> "FastAPI has routers. Routers enable organization.",
    two   |-> "FastAPI has routers and FastAPI uses Pydantic for validation.\n\nFastAPI has routers. Pydantic provides validation of the data.",
    long  |-> Paragraph1 \o "\n\n" \o Paragraph2 \o "\n\n" \o Paragraph3 ]

Readable == DOMAIN Files
Paths == Readable \cup {"missing"}
Contents == {Files[path] : path \in Readable}

\* faulty variant: a file that cannot be read counts as an empty one
Read_missing_as_empty(path) ==
    [raised |-> FALSE, text |-> IF path \in Readable THEN Files[path] ELSE ""]

\* `with open(file_path, 'r', encoding='utf-8') as file: text = file.read()`
Read(path) ==
    IF path \in Readable THEN [raised |-> FALSE, text |-> Files[path]]
    ELSE [raised |-> TRUE, text |-> ""]

\* str(e) of the exceptions the collaborators raise
ReadError  == "[Errno 2] No such file or directory: 'missing'"
AddError   == "Could not connect to a Chroma server"
GraphError == "Failed to write data to connection"
LlmError   == "generator unavailable"

\* the questions asked
Questions == {
    "What is FastAPI?",
    "EXPLAIN what FastAPI has with Pydantic",
    "Summary of links",
    "hello" }

\* what the text generator of the full service may answer to a prompt
Responses == {
    "('FastAPI', has component, \"routers\")\n(Pydantic, \"\", validation)\n(Pydantic, ' ', validation)\nnot a triple",
    "(A)",
    "The best method is Graph Query" }

\* what the generator answers to the prompt of an answer: response.text of
\* self.model.generate_content, the "result" of a chain
Answers == { "FastAPI is a web framework that has routers." }

\* the responses of the FakeListLLM of _initialize_fallback_llm
FakeResponses == <<
    "Vector Search",
    "Graph Query",
    "FastAPI has components like routers, middleware, and dependency injection.",
    "The get function accepts parameters like url, headers, and timeout.",
    "FastAPI provides automatic API documentation and validation." >>

(***************************************************************************)
(* The pure steps, applied to every input of the model                     *)
(***************************************************************************)
\* the relationships of all the chunks, in order:
\* `for chunk in chunks: ...extend(relationships)`
RECURSIVE ExtendAll(_, _, _)
ExtendAll(Extract(_), chunks, k) ==
    IF k > Len(chunks) THEN <<>>
    ELSE Extract(chunks[k]) \o ExtendAll(Extract, chunks, k + 1)

\* every text the generator may answer
Texts == Responses \cup Range(FakeResponses)

\* every triple _extract_entities_and_relationships may hand on
RawTriples == UNION {Range(ParseTriples(text)) : text \in Texts}

\* each costly pure step of the three implementations as a table over the
\* inputs: what the call returns for each text and each triple
Calls == [
    Full_chunk_text |-> [text \in Contents |-> Full_chunk_text(text)],
    Simple_chunk_text |-> [text \in Contents |-> Simple_chunk_text(text)],
    Standalone_chunk_text |-> [text \in Contents |-> Standalone_chunk_text(text)],
    Simple_extract_all |->
        [text \in Contents |->
            ExtendAll(Simple_extract_relationships_simple,
                      Simple_chunk_text(text), 1)],
    Standalone_extract_all |->
        [text \in Contents |->
            ExtendAll(Standalone_extract_relationships,
                      Standalone_chunk_text(text), 1)],
    ParseTriples |-> [text \in Texts |-> ParseTriples(text)],
    CleanTriple |-> [t \in RawTriples |-> CleanTriple(t)] ]

(***************************************************************************)
(* Views of the state, and its initial value                               *)
(***************************************************************************)
full_stores       == <<vectorstore, graph>>
simple_stores     == <<collection, relationships>>
standalone_stores == <<chunks_store, relationships_store>>
\* what neither ingest_data nor query writes
config            == <<calls, svc, llm, collection_ok, model, unit, embedded>>
router_state      == <<queries, route, routed, reply>>
ingest_state      == <<pc, run, prev, report, runs, returned>>

\* the stores as one value, to compare the stores of two states
Stores == [vectorstore |-> vectorstore, graph |-> graph,
           collection |-> collection, relationships |-> relationships,
           chunks_store |-> chunks_store,
           relationships_store |-> relationships_store]

EmptyGraph == [nodes |-> <<>>, edges |-> <<>>]
EmptyStores == [vectorstore |-> <<>>, graph |-> EmptyGraph, collection |-> <<>>,
                relationships |-> [set |-> FALSE, list |-> <<>>],
                chunks_store |-> <<>>, relationships_store |-> <<>>]

NoRun == [path |-> "", text |-> "", chunks |-> <<>>, i |-> 0, per_chunk |-> <<>>,
          all_triples |-> <<>>, j |-> 0, before |-> EmptyStores,
          phase |-> "", error |-> ""]
NoPrev == [path |-> "", all_triples |-> <<>>, status |-> "none"]
NoReport == [status |-> "none", chunks_processed |-> 0, triples_extracted |-> 0,
             message |-> "", code |-> 0]
\* POST /api/embed-doc was not called
NoEmbedded == [calls |-> 0, at |-> 0, status |-> "none", filename |-> "",
               pages |-> 0, total_chars |-> 0]
\* no function or script is run on its own
NoUnit == [question |-> "", relevant |-> <<>>, exists |-> FALSE,
           called |-> FALSE, exit_status |-> -1,
           returned_status |-> "none"]
NoRoute == [question |-> "", response |-> RAISE, decision |-> ""]
NoReply == [status |-> "none", answer |-> "", search_method |-> "",
            sources |-> <<>>, message |-> "", code |-> 0,
            question |-> "", generated |-> 0, empty |-> TRUE, hits |-> 0,
            facts |-> ""]

Init ==
    /\ calls = Calls
    /\ svc \in {"full", "simple", "standalone"}
    /\ llm \in (IF svc = "full" THEN {"real", "fake"} ELSE {"none"})
    /\ collection_ok \in (IF svc = "simple" THEN BOOLEAN ELSE {FALSE})
    /\ model \in (IF svc = "full" THEN {"none"} ELSE {"none", "gemini"})
    /\ fake_i = 0
    /\ vectorstore = <<>>
    /\ graph = EmptyGraph
    /\ collection = <<>>
    /\ relationships = [set |-> FALSE, list |-> <<>>]
    /\ chunks_store = <<>>
    /\ relationships_store = <<>>
    /\ pc = "idle"
    /\ run = NoRun
    /\ prev = NoPrev
    /\ report = NoReport
    /\ runs = 0
    /\ returned = 0
    /\ queries = 0
    /\ route = NoRoute
    /\ routed = {}
    /\ reply = NoReply
    /\ unit = NoUnit
    /\ embedded = NoEmbedded

(***************************************************************************)
(* ingest_data: what every implementation shares                           *)
(***************************************************************************)
\* the dict of the success return
SuccessReport(chunks, triples, message) ==
    [status |-> "success", chunks_processed |-> Len(chunks),
     triples_extracted |-> Len(triples), message |-> message, code |-> 0]

\* faulty variant: the error report drops the exception's message
ErrorReport_without_cause(e) ==
    [status |-> "error", chunks_processed |-> 0, triples_extracted |-> 0,
     message |-> "Failed to ingest data", code |-> 0]

\* the dict of the `except Exception as e` handler of ingest_data
ErrorReport(e) ==
    [status |-> "error", chunks_processed |-> 0, triples_extracted |-> 0,
     message |-> "Failed to ingest data: " \o e, code |-> 0]

\* the call starts: its locals are fresh, the last call becomes the one before
Begin(path) ==
    /\ pc = "idle"
    /\ runs < MaxRuns
    /\ runs + queries + embedded.calls < MaxCalls
    /\ runs' = runs + 1
    /\ prev' = [path |-> run.path, all_triples |-> run.all_triples,
                status |-> report.status]

\* the locals of a call that has read nothing yet
Started(path) == [NoRun EXCEPT !.path = path, !.before = Stores, !.phase = "read"]

\* the call is over: it hands `r` to its caller
Finish(r, locals) ==
    /\ report' = r
    /\ run' = locals
    /\ pc' = "idle"
    /\ returned' = returned + 1

\* the call goes on to its next step
Goto(step, locals) ==
    /\ pc' = step
    /\ run' = locals
    /\ UNCHANGED <<report, returned>>

\* the locals when exception `e` is caught in phase `phase`
Failed(locals, phase, e) == [locals EXCEPT !.phase = phase, !.error = e]

(***************************************************************************)
(* The text generator of the full service                                  *)
(***************************************************************************)
\* what self.llm.invoke may come to in this state: the sampling generators
\* may answer anything or raise, the FakeListLLM answers responses[i]
InvocationsAt(i) ==
    IF llm = "fake" THEN {Returned(FakeResponses[i + 1])}
    ELSE {Returned(text) : text \in Responses} \cup {RAISE}

Invocations == InvocationsAt(fake_i)

\* FakeListLLM._call: after responses[i], i moves on and wraps to 0
Invoked == fake_i' = (IF llm = "fake" THEN (fake_i + 1) % Len(FakeResponses)
                      ELSE fake_i)

\* faulty variant: the extractor without its try/except
Full_extract_unguarded(response) ==
    IF response.raised THEN [escapes |-> TRUE, triples |-> <<>>]
    ELSE [escapes |-> FALSE, triples |-> calls.ParseTriples[response.text]]

\* HybridRAGService._extract_entities_and_relationships, given what
\* self.llm.invoke came to: the triples, and whether an exception escapes
Full_extract(response) ==
    IF response.raised THEN [escapes |-> FALSE, triples |-> <<>>]
    ELSE [escapes |-> FALSE, triples |-> calls.ParseTriples[response.text]]

(***************************************************************************)
(* The stores of the full service                                          *)
(***************************************************************************)
\* the entries self.vectorstore.add_texts writes for the chunks of a file
Entries(path, chunks) ==
    [k \in 1..Len(chunks) |->
        [text |-> chunks[k], source |-> path, chunk_id |-> k - 1]]

\* MERGE (h:Entity {name: $name}): the node is created if none has the name
MergeNode(nodes, name) ==
    IF name \in Range(nodes) THEN nodes ELSE Append(nodes, name)

\* faulty variant: CREATE in place of MERGE
CreateEdge(edges, t) == Append(edges, t)

\* MERGE (h)-[r:RELATION]->(t): the edge is created if there is none
MergeEdge(edges, t) ==
    IF t \in Range(edges) THEN edges ELSE Append(edges, t)

\* the query session.run executes for one cleaned triple
Merge(g, t) ==
    [nodes |-> MergeNode(MergeNode(g.nodes, t[1]), t[3]),
     edges |-> MergeEdge(g.edges, t)]

(***************************************************************************)
(* HybridRAGService.ingest_data                                            *)
(***************************************************************************)
\* faulty variant: the extraction loop never hands over to the store phase
AfterChunk_never_done(i, chunks) == "extract"

\* the step after `i` chunks went through the extraction loop
AfterChunk(i, chunks) == IF i < Len(chunks) THEN "extract" ELSE "store"

\* open, read, _chunk_text
FullIngestStart(path) ==
    /\ svc = "full"
    /\ Begin(path)
    /\ LET file == Read(path)
       IN  IF file.raised
           THEN Finish(ErrorReport(ReadError), Failed(Started(path), "read", ReadError))
           ELSE Goto("add_texts", [Started(path) EXCEPT
                    !.text = file.text,
                    !.chunks = calls.Full_chunk_text[file.text],
                    !.phase = "add_texts"])
    /\ UNCHANGED <<config, fake_i, full_stores, simple_stores,
                   standalone_stores, router_state>>

\* self.vectorstore.add_texts(texts=chunks, metadatas=...): one request for
\* all the chunks, or an exception
FullAddTexts ==
    /\ pc = "add_texts"
    /\ \/ /\ vectorstore' = vectorstore \o Entries(run.path, run.chunks)
          /\ Goto(AfterChunk(0, run.chunks),
                  [run EXCEPT !.phase = AfterChunk(0, run.chunks)])
       \/ /\ Finish(ErrorReport(AddError), Failed(run, "add_texts", AddError))
          /\ UNCHANGED vectorstore
    /\ UNCHANGED <<config, fake_i, graph, simple_stores, standalone_stores,
                   runs, prev, router_state>>

\* one turn of `for i, chunk in enumerate(chunks)`
FullExtract ==
    /\ pc = "extract"
    /\ run.i < Len(run.chunks)
    /\ \E response \in Invocations :
         LET out == Full_extract(response)
         IN  IF out.escapes
             THEN Finish(ErrorReport(LlmError), Failed(run, "extract", LlmError))
             ELSE Goto(AfterChunk(run.i + 1, run.chunks), [run EXCEPT
                     !.i = run.i + 1,
                     !.phase = AfterChunk(run.i + 1, run.chunks),
                     !.per_chunk = Append(run.per_chunk,
                         [raised |-> response.raised, triples |-> out.triples]),
                     !.all_triples = run.all_triples \o out.triples])
    /\ Invoked
    /\ UNCHANGED <<config, full_stores, simple_stores, standalone_stores,
                   runs, prev, router_state>>

\* _store_triples_in_neo4j: one turn of `for head, relation, tail in triples`
FullStoreTriple ==
    /\ pc = "store"
    /\ run.j < Len(run.all_triples)
    /\ LET t == calls.CleanTriple[run.all_triples[run.j + 1]]
           next == [run EXCEPT !.j = run.j + 1]
       IN  IF Storable(t)
           THEN \/ /\ graph' = Merge(graph, t)
                   /\ Goto("store", next)
                \/ /\ Finish(ErrorReport(GraphError), Failed(run, "store", GraphError))
                   /\ UNCHANGED graph
           ELSE /\ Goto("store", next)
                /\ UNCHANGED graph
    /\ UNCHANGED <<config, fake_i, vectorstore, simple_stores,
                   standalone_stores, runs, prev, router_state>>

\* the success return
FullIngestReturn ==
    /\ pc = "store"
    /\ run.j = Len(run.all_triples)
    /\ Finish(SuccessReport(run.chunks, run.all_triples,
                "Data successfully ingested into both vector store and knowledge graph"),
              [run EXCEPT !.phase = "done"])
    /\ UNCHANGED <<config, fake_i, full_stores, simple_stores,
                   standalone_stores, runs, prev, router_state>>

FullIngest ==
    \/ \E path \in Paths : FullIngestStart(path)
    \/ FullAddTexts
    \/ FullExtract
    \/ FullStoreTriple
    \/ FullIngestReturn

(***************************************************************************)
(* SimpleHybridRAGService.ingest_data                                      *)
(***************************************************************************)
\* the ids of the entries of the Chroma collection
Ids(entries) == {entries[k].id : k \in 1..Len(entries)}

\* vector_service.store_embedding: collection.add of one entry; an id the
\* collection already holds is not written again
CollectionAdd(entries, doc_id, text, metadata) ==
    IF doc_id \in Ids(entries) THEN entries
    ELSE Append(entries, [id |-> doc_id, text |-> text, metadata |-> metadata])

\* f"chunk_{i}", for the few chunks a document of the model has
DocId(i) == "chunk_" \o SubSeq(DigitChars, i + 1, i + 1)

\* open, read, _chunk_text
SimpleIngestStart(path) ==
    /\ svc = "simple"
    /\ Begin(path)
    /\ LET file == Read(path)
           chunks == calls.Simple_chunk_text[file.text]
           step == IF collection_ok /\ chunks # <<>> THEN "embed" ELSE "relate"
       IN  IF file.raised
           THEN Finish(ErrorReport(ReadError), Failed(Started(path), "read", ReadError))
           ELSE Goto(step, [Started(path) EXCEPT
                    !.text = file.text, !.chunks = chunks, !.phase = step])
    /\ UNCHANGED <<config, fake_i, full_stores, simple_stores,
                   standalone_stores, router_state>>

\* one turn of `for i, chunk in enumerate(chunks)` under `if self.collection`
SimpleStoreEmbedding ==
    /\ pc = "embed"
    /\ \/ /\ collection' = CollectionAdd(collection, DocId(run.i),
                               run.chunks[run.i + 1],
                               [source |-> run.path, chunk_id |-> run.i])
          /\ Goto(IF run.i + 1 = Len(run.chunks) THEN "relate" ELSE "embed",
                  [run EXCEPT !.i = run.i + 1,
                       !.phase = IF run.i + 1 = Len(run.chunks)
                                 THEN "relate" ELSE "embed"])
       \/ /\ Finish(ErrorReport(AddError), Failed(run, "embed", AddError))
          /\ UNCHANGED collection
    /\ UNCHANGED <<config, fake_i, full_stores, relationships,
                   standalone_stores, runs, prev, router_state>>

\* the extraction loop, `self.relationships = all_relationships`, the return
SimpleIngestReturn ==
    /\ pc = "relate"
    /\ LET all_relationships == calls.Simple_extract_all[run.text]
       IN  /\ relationships' = [set |-> TRUE, list |-> all_relationships]
           /\ Finish(SuccessReport(run.chunks, all_relationships,
                  "Data successfully ingested into vector store and relationships extracted"),
                  [run EXCEPT !.all_triples = all_relationships, !.phase = "done"])
    /\ UNCHANGED <<config, fake_i, full_stores, collection,
                   standalone_stores, runs, prev, router_state>>

SimpleIngest ==
    \/ \E path \in Paths : SimpleIngestStart(path)
    \/ SimpleStoreEmbedding
    \/ SimpleIngestReturn

(***************************************************************************)
(* routers/workflow.py: POST /api/embed-doc, mounted next to the simple    *)
(* service's router; it writes to the collection the simple service reads  *)
(***************************************************************************)
\* the uploads: the file name, whether fitz.open can read the bytes, and
\* page.get_text("text") of every page
Pdfs == {
    [filename |-> "notes.txt", opens |-> FALSE, pages |-> <<>>],
    [filename |-> "blank.pdf", opens |-> TRUE, pages |-> <<" \n">>],
    [filename |-> "guide.pdf", opens |-> TRUE,
     pages |-> <<"FastAPI has routers.\n", "", "Pydantic provides validation.\n">>] }

\* chunks, without the ids: (text, metadata) of every page that has text,
\* pages counted from 1
RECURSIVE PageChunksTo(_, _)
PageChunksTo(pdf, page_num) ==
    IF page_num = 0 THEN <<>>
    ELSE LET text == strip(pdf.pages[page_num])
             chunks == PageChunksTo(pdf, page_num - 1)
         IN  IF text # ""
             THEN Append(chunks, [text |-> text,
                      metadata |-> [filename |-> pdf.filename, page |-> page_num]])
             ELSE chunks

PageChunks(pdf) == PageChunksTo(pdf, Len(pdf.pages))

\* f"{uuid.uuid4()}": an id no entry of the collection has
uuid4(entries) == "uuid-" \o SubSeq(DigitChars, Len(entries) + 2, Len(entries) + 2)

\* the first n turns of `for doc_id, text, metadata in chunks:
\* vector_service.store_embedding(doc_id, text, metadata=metadata)`
RECURSIVE StoreChunks(_, _, _)
StoreChunks(entries, chunks, n) ==
    IF n = 0 THEN entries
    ELSE LET before == StoreChunks(entries, chunks, n - 1)
         IN  CollectionAdd(before, uuid4(before), chunks[n].text, chunks[n].metadata)

\* sum(len(t) for _, t, _ in chunks)
RECURSIVE total_chars(_)
total_chars(chunks) ==
    IF chunks = <<>> THEN 0 ELSE Len(Head(chunks).text) + total_chars(Tail(chunks))

\* the endpoint has no handler of its own: when fitz.open or a
\* store_embedding call raises, the entries written before stay and the
\* application answers 500
embed_doc(pdf) ==
    /\ svc = "simple"
    /\ pc = "idle"
    /\ embedded.calls < MaxEmbeds
    /\ runs + queries + embedded.calls < MaxCalls
    /\ LET chunks == PageChunks(pdf)
           Answer(status, pages, chars) ==
               [calls |-> embedded.calls + 1, at |-> returned, status |-> status,
                filename |-> pdf.filename, pages |-> pages, total_chars |-> chars]
       IN  IF ~pdf.opens
           THEN /\ embedded' = Answer("raised", 0, 0)
                /\ UNCHANGED collection
           ELSE IF chunks = <<>>
           THEN /\ embedded' = Answer("error", 0, 0)
                /\ UNCHANGED collection
           ELSE \E n \in 0..Len(chunks) :
                   /\ collection' = StoreChunks(collection, chunks, n)
                   /\ embedded' = IF n < Len(chunks) THEN Answer("raised", 0, 0)
                                  ELSE Answer("embedded", Len(chunks), total_chars(chunks))
    /\ UNCHANGED <<calls, svc, llm, collection_ok, model, unit, fake_i,
                   full_stores, relationships, standalone_stores, router_state,
                   ingest_state>>

(***************************************************************************)
(* standalone_hybrid_rag: POST /ingest                                     *)
(***************************************************************************)
\* the HTTPException(500) the `except Exception as e` handler raises
HttpError(e) ==
    [status |-> "http_error", chunks_processed |-> 0, triples_extracted |-> 0,
     message |-> "Ingestion failed: " \o e, code |-> 500]

\* str() of HTTPException(status_code=404, detail="Data file not found")
NotFound == "404: Data file not found"

\* the whole endpoint: it has no await, so nothing runs in between
StandaloneIngest(path) ==
    /\ svc = "standalone"
    /\ Begin(path)
    /\ LET file == Read(path)
           chunks == calls.Standalone_chunk_text[file.text]
           rels == calls.Standalone_extract_all[file.text]
       IN  IF file.raised
           THEN /\ Finish(HttpError(NotFound), Failed(Started(path), "read", NotFound))
                /\ UNCHANGED standalone_stores
           ELSE /\ chunks_store' = chunks
                /\ relationships_store' = rels
                /\ Finish([SuccessReport(chunks, rels, "Data ingested successfully")
                              EXCEPT !.code = 200],
                          [Started(path) EXCEPT !.text = file.text,
                               !.chunks = chunks, !.all_triples = rels,
                               !.phase = "done"])
    /\ UNCHANGED <<config, fake_i, full_stores, simple_stores, router_state>>

(***************************************************************************)
(* The query calls                                                         *)
(***************************************************************************)
\* a query arrives between two ingestion calls
Asked ==
    /\ pc = "idle"
    /\ queries < MaxQueries
    /\ runs + queries + embedded.calls < MaxCalls
    /\ queries' = queries + 1

\* the router returned `decision` for `question`
Routed(question, response, decision) ==
    /\ route' = [question |-> question, response |-> response,
                 decision |-> decision]
    /\ routed' = IF svc = "full" THEN routed
                 ELSE routed \cup {<<question, decision, runs>>}

\* nothing is ingested: the semantic index and the relationship index of the
\* implementation are both empty
EmptyCorpus ==
    IF svc = "full" THEN vectorstore = <<>> /\ graph.edges = <<>>
    ELSE IF svc = "simple" THEN collection = <<>> /\ relationships.list = <<>>
    ELSE chunks_store = <<>> /\ relationships_store = <<>>

\* the dict of the success return of query, with what the call did: the
\* generator calls that it made and that returned or raised to the service
\* (those that raised inside a chain are the chain's), and whether the
\* corpus was empty when it ran
Envelope(question, search_method, result, generated) ==
    [NoReply EXCEPT !.status = "success", !.answer = result.answer,
                    !.search_method = search_method,
                    !.sources = result.sources, !.question = question,
                    !.generated = generated, !.empty = EmptyCorpus,
                    !.hits = result.hits, !.facts = result.facts]

\* the dict of the `except Exception as e` handler of query
QueryError(question, e, generated) ==
    [NoReply EXCEPT !.status = "error",
                    !.message = "Failed to process query: " \o e,
                    !.question = question, !.generated = generated,
                    !.empty = EmptyCorpus]

\* what self.model.generate_content comes to when it is called
Generations ==
    IF model = "none" THEN {RAISE}
    ELSE {Returned(text) : text \in Answers} \cup {RAISE}

\* the generator calls a chain makes: RetrievalQA prompts once with the
\* passages, GraphCypherQAChain once for the Cypher query and once for the
\* answer
ChainCalls(search_method) == IF search_method = "vector" THEN 1 ELSE 2

\* what vector_chain.invoke / graph_chain.invoke may come to when the
\* FakeListLLM stands at index i: the result with the generator's last
\* answer, or an exception raised after k of the chain's generator calls
\* returned (by the retrieval, by the generator, by the Cypher query)
ChainOutcomes(search_method, i) ==
    LET n == ChainCalls(search_method)
        texts == IF llm = "fake"
                 THEN {FakeResponses[((i + n - 1) % Len(FakeResponses)) + 1]}
                 ELSE Answers
    IN  {[raised |-> FALSE, text |-> text, calls |-> n] : text \in texts}
        \cup {[raised |-> TRUE, text |-> "", calls |-> k] : k \in 0..(n - 1)}

\* result["source_documents"] of the vector chain: the k = 3 nearest
\* entries, here the first ones in store order (the ranking is the
\* embedding model's); sources takes their metadata
SourceDocuments ==
    [k \in 1..Min({3, Len(vectorstore)}) |->
        [source |-> vectorstore[k].source, chunk_id |-> vectorstore[k].chunk_id]]

\* faulty variant: query without its try/except
Full_query_unguarded(question, search_method, outcome) ==
    LET sources == IF search_method = "vector" THEN SourceDocuments
                   ELSE <<[source |-> "knowledge_graph"]>>
        hits == IF search_method = "vector" THEN Len(SourceDocuments)
                ELSE IF graph.edges = <<>> THEN 0 ELSE 1
    IN  IF outcome.raised
        THEN [NoReply EXCEPT !.status = "raised", !.question = question]
        ELSE Envelope(question, search_method,
                      Result(outcome.text, sources, outcome.calls, hits, ""),
                      1 + outcome.calls)

\* HybridRAGService.query after route_query returned search_method, given
\* what the chain's invoke came to. The retrieval is the chain's: hits is the
\* number of source documents on the vector route; on the graph route it is
\* 0 when the graph holds no edge and 1, for some, when the Cypher query
\* has an edge to match.
Full_query(question, search_method, outcome) ==
    LET sources == IF search_method = "vector" THEN SourceDocuments
                   ELSE <<[source |-> "knowledge_graph"]>>
        hits == IF search_method = "vector" THEN Len(SourceDocuments)
                ELSE IF graph.edges = <<>> THEN 0 ELSE 1
    IN  IF outcome.raised
        THEN QueryError(question, ChainError, 1 + outcome.calls)
        ELSE Envelope(question, search_method,
                      Result(outcome.text, sources, outcome.calls, hits, ""),
                      1 + outcome.calls)

\* HybridRAGService.query: route_query, then the chain of the route
FullRouteQuery(question) ==
    /\ svc = "full"
    /\ Asked
    /\ \E response \in Invocations :
         LET search_method == Full_route_response(response)
             i == IF llm = "fake" THEN (fake_i + 1) % Len(FakeResponses)
                  ELSE fake_i
         IN  /\ Routed(question, response, search_method)
             /\ \E outcome \in ChainOutcomes(search_method, i) :
                    /\ reply' = Full_query(question, search_method, outcome)
                    /\ fake_i' = IF llm = "fake"
                                 THEN (i + outcome.calls) % Len(FakeResponses)
                                 ELSE fake_i
    /\ UNCHANGED <<config, full_stores, simple_stores, standalone_stores,
                   ingest_state>>

\* SimpleHybridRAGService.query after _route_query returned search_method;
\* no statement of its try block can raise, so the handler is never entered
Simple_query(question, search_method, results, generation) ==
    IF search_method = "vector"
    THEN LET result == Simple_vector_search(question, results)
         IN  Envelope(question, search_method, result, result.generated)
    ELSE LET result == Simple_graph_search(question, generation)
         IN  Envelope(question, search_method, result, result.generated)

\* SimpleHybridRAGService.query
SimpleRouteQuery(question) ==
    /\ svc = "simple"
    /\ Asked
    /\ LET search_method == Simple_route_query(question)
       IN  /\ Routed(question, Returned(""), search_method)
           /\ \E results \in query_embedding(collection, 3),
                 generation \in Generations :
                  reply' = Simple_query(question, search_method, results,
                                        generation)
    /\ UNCHANGED <<config, fake_i, full_stores, simple_stores,
                   standalone_stores, ingest_state>>

\* str() of HTTPException(status_code=400, detail="No data ingested. ...")
NoData == "400: No data ingested. Please call /ingest first."

\* the HTTPException(500) the `except Exception as e` handler of query_rag
\* raises
HttpQueryError(question, e) ==
    [NoReply EXCEPT !.status = "http_error", !.code = 500,
                    !.message = "Query failed: " \o e, !.question = question,
                    !.empty = EmptyCorpus]

\* query_rag of the standalone app once chunks_store holds something: the
\* QueryResponse it returns
Standalone_query(question, search_method, generation) ==
    LET result == IF search_method = "vector"
                  THEN Standalone_vector_search(question, generation)
                  ELSE Standalone_graph_search(question, generation)
    IN  [Envelope(question, search_method, result, result.generated)
            EXCEPT !.code = 200]

\* standalone POST /query: with an empty chunks_store the endpoint raises
\* before it routes, and its own handler turns that into a 500
StandaloneQuery(question) ==
    /\ svc = "standalone"
    /\ Asked
    /\ IF chunks_store = <<>>
       THEN /\ reply' = HttpQueryError(question, NoData)
            /\ UNCHANGED <<route, routed>>
       ELSE LET search_method == Standalone_route_query(question)
            IN  /\ Routed(question, Returned(""), search_method)
                /\ \E generation \in Generations :
                       reply' = Standalone_query(question, search_method,
                                                 generation)
    /\ UNCHANGED <<config, fake_i, full_stores, simple_stores,
                   standalone_stores, ingest_state>>

RouteQuery ==
    \E question \in Questions :
        \/ FullRouteQuery(question)
        \/ SimpleRouteQuery(question)
        \/ StandaloneQuery(question)

Next ==
    \/ FullIngest
    \/ SimpleIngest
    \/ \E path \in Paths : StandaloneIngest(path)
    \/ RouteQuery
    \/ \E pdf \in Pdfs : embed_doc(pdf)

Spec == Init /\ [][Next]_vars

\* the steps of a call of ingest_data that has started
Continue ==
    \/ FullAddTexts
    \/ FullExtract
    \/ FullStoreTriple
    \/ FullIngestReturn
    \/ SimpleStoreEmbedding
    \/ SimpleIngestReturn

\* what every such step changes: the position of the call
position == <<pc, run.i, run.j>>

\* a call that has started runs on: each call it makes to a store or to the
\* generator returns or raises, and the handler then takes its next step
FairSpec == Spec /\ WF_position(Continue)
(***************************************************************************)
(* Properties                                                              *)
(***************************************************************************)
\* the relationship index among the stores `stores` of the implementation
IndexOf(stores) ==
    IF svc = "full" THEN stores.graph
    ELSE IF svc = "simple" THEN stores.relationships
    ELSE stores.relationships_store

NoDuplicates(seq) == \A a, b \in 1..Len(seq) : seq[a] = seq[b] => a = b

\* the call that returned last ingested the file of the call before it, and
\* both calls succeeded
Reingested ==
    /\ pc = "idle"
    /\ report.status = "success"
    /\ prev.status = "success"
    /\ prev.path = run.path

\* the question holds an indicator of each list of the heuristic router
HasGraphIndicator(question) ==
    AnyKeyword(IF svc = "simple" THEN Simple_graph_keywords
               ELSE Standalone_graph_keywords, lower(question))
HasVectorIndicator(question) ==
    AnyKeyword(IF svc = "simple" THEN Simple_vector_keywords
               ELSE Standalone_vector_keywords, lower(question))

Heuristic == svc \in {"simple", "standalone"}

\* the response names no option: neither marker, neither option name
Unparseable(text) ==
    /\ ~Contains(text, "(A)")
    /\ ~Contains(text, "Vector Search")
    /\ ~Contains(text, "(B)")
    /\ ~Contains(text, "Graph Query")

\* the decisions route_query can return when the generator stands at index i
RouteOutcomes(i) == {Full_route_response(response) : response \in InvocationsAt(i)}

\* C1 (as amended): when a file is ingested a second time and the extractor
\* yields the same triples as the first time - which the pattern extractors of
\* the simple service and the standalone app always do - the relationship
\* index is left exactly as the first run left it; and the graph of the full
\* service never holds two nodes of one name or two edges of one direction
\* and predicate, whatever the generator answers.
C1_ReingestionWithSameTriples ==
    /\ (Reingested /\ prev.all_triples = run.all_triples)
           => IndexOf(Stores) = IndexOf(run.before)
    /\ NoDuplicates(graph.nodes)
    /\ NoDuplicates(graph.edges)

\* C1 witness: the full service ingested a file twice, extracted the same
\* triples both times, and its graph holds edges.
C1_ReingestedSameTriples ==
    /\ Reingested
    /\ svc = "full"
    /\ run.all_triples # <<>>
    /\ prev.all_triples = run.all_triples
    /\ graph.edges # <<>>

\* C1 as stated: for every document, a second ingestion in a row leaves the
\* relationship index with the nodes and edges the first one left, in the
\* three implementations.
C1_ReingestionOfEveryDocument ==
    Reingested => IndexOf(Stores) = IndexOf(run.before)

\* C2: when the write to the relationship index raises, the call returns a
\* report of status error whose message holds the exception's message, the
\* chunks the call wrote to the semantic index are all still there, and the
\* loop over the triples has not come to its end.
C2_GraphWriteFailure ==
    (pc = "idle" /\ run.phase = "store" /\ run.error # "")
        => /\ report.status = "error"
           /\ Contains(report.message, run.error)
           /\ vectorstore = run.before.vectorstore \o Entries(run.path, run.chunks)
           /\ run.j < Len(run.all_triples)

\* C2 witness: a call that wrote two chunks and one edge ended on a failed
\* graph write.
C2_FailedAfterChunksWritten ==
    /\ pc = "idle"
    /\ run.phase = "store"
    /\ run.error = GraphError
    /\ Len(run.chunks) = 2
    /\ run.j >= 1
    /\ graph.edges # run.before.graph.edges

\* no other endpoint has written to a store since the last ingest_data call
\* returned
NoWriteSinceReturn == embedded.calls = 0 \/ embedded.at < returned

\* C3: when the file cannot be read, ingest_data of the two services returns
\* a report of status error, and every store is as it was when the call
\* began (for as long as no other endpoint writes to it).
C3_UnreadableFile ==
    (svc \in {"full", "simple"} /\ pc = "idle" /\ returned > 0
        /\ run.path \notin Readable)
        => /\ report.status = "error"
           /\ NoWriteSinceReturn => Stores = run.before

\* C3 witness: a call on the missing file returned after an earlier call had
\* filled the stores.
C3_MissingFileAfterIngestion ==
    /\ svc = "full"
    /\ pc = "idle"
    /\ returned = 2
    /\ run.path \notin Readable
    /\ vectorstore # <<>>
    /\ graph.edges # <<>>

\* C4: a generator call that fails while a chunk is extracted gives that
\* chunk no triples and ends no run: a run that is past its extraction loop
\* has extracted from every chunk, and no run returns from within the loop.
C4_ExtractionFailureContained ==
    svc = "full"
        => /\ \A k \in 1..Len(run.per_chunk) :
                 run.per_chunk[k].raised => run.per_chunk[k].triples = <<>>
           /\ run.phase \in {"store", "done"}
                 => Len(run.per_chunk) = Len(run.chunks)
           /\ ~(pc = "idle" /\ run.phase = "extract")
           /\ run.all_triples =
                 ExtendAll(LAMBDA piece : piece.triples, run.per_chunk, 1)

\* C4 witness: the generator failed on the first chunk, the second chunk
\* gave triples all the same, and the run ended in success.
C4_SuccessAfterFailedChunk ==
    /\ svc = "full"
    /\ pc = "idle"
    /\ report.status = "success"
    /\ Len(run.per_chunk) = 2
    /\ run.per_chunk[1].raised
    /\ run.per_chunk[2].triples # <<>>

\* C5: every call of ingest_data of the two services that has started
\* returns in the end, each call returns once (a call is either running, or
\* as many reports were returned as calls were started), and the report it
\* returns has status success or error.
C5_IngestReturnsOneReport ==
    /\ [](svc \in {"full", "simple"}
            => /\ returned <= runs
               /\ runs <= returned + 1
               /\ (pc = "idle") <=> (runs = returned)
               /\ (returned = 0) => (report = NoReport)
               /\ (returned > 0) => (report.status \in {"success", "error"}))
    /\ ((pc # "idle") ~> (pc = "idle"))

\* C5 witness: two calls of the simple service have returned, the last with
\* an error report.
C5_TwoCallsReturned ==
    /\ svc = "simple"
    /\ pc = "idle"
    /\ returned = 2
    /\ report.status = "error"

\* C6: under the heuristic policy a question that holds an indicator of the
\* graph list and one of the vector list is routed to the graph.
C6_BothIndicatorsRouteGraph ==
    (Heuristic /\ route.decision # ""
        /\ HasGraphIndicator(route.question) /\ HasVectorIndicator(route.question))
        => route.decision = "graph"

\* C6 witness: the simple service routed "Summary of links", which holds
\* "links" of the graph list and "summary" of the vector list.
C6_RoutedQuestionWithBoth ==
    /\ svc = "simple"
    /\ route.question = "Summary of links"
    /\ HasGraphIndicator(route.question)
    /\ HasVectorIndicator(route.question)
    /\ route.decision = "graph"

\* C7: whatever the implementation, a router call returns "vector" or
\* "graph" and nothing else, and under the heuristic policy a question with
\* no indicator of either list is routed "vector".
C7_TwoOutcomes ==
    route.decision # ""
        => /\ route.decision \in {"vector", "graph"}
           /\ (Heuristic /\ ~HasGraphIndicator(route.question)
                  /\ ~HasVectorIndicator(route.question))
                 => route.decision = "vector"

\* C7 witness: the standalone app routed "hello", which holds no indicator.
C7_RoutedQuestionWithNeither ==
    /\ svc = "standalone"
    /\ route.question = "hello"
    /\ ~HasGraphIndicator(route.question)
    /\ ~HasVectorIndicator(route.question)
    /\ route.decision = "vector"

\* C8: under the heuristic policy two router calls on the same question
\* return the same decision, whatever was ingested or asked between them.
C8_HeuristicRoutingDeterministic ==
    Heuristic => \A a, b \in routed : a[1] = b[1] => a[2] = b[2]

\* C8 witness: the simple service routed one question before and after an
\* ingestion that filled its relationship index.
C8_SameQuestionAroundIngestion ==
    /\ svc = "simple"
    /\ relationships.list # <<>>
    /\ \E a, b \in routed : a[1] = b[1] /\ a[3] = 0 /\ b[3] = 1

\* C9 as stated: in the full service the decisions route_query can return
\* are the same after any number of earlier generator calls as before the
\* first one, the fallback generator included.
C9_RoutingIndependentOfEarlierCalls ==
    svc = "full" => RouteOutcomes(fake_i) = RouteOutcomes(0)

\* C10: in the full service a generator response that names no option, and a
\* generator call that raises, are both routed "vector"; route_query returns
\* a decision even when the call raises.
C10_UnparseableOrFailedRoutesVector ==
    (svc = "full" /\ route.decision # "")
        => /\ route.decision \in {"vector", "graph"}
           /\ (route.response.raised \/ Unparseable(route.response.text))
                 => route.decision = "vector"

\* C10 witness: the generator raised during a router call, and the call
\* returned "vector".
C10_RoutedAfterGeneratorRaised ==
    /\ svc = "full"
    /\ queries > 0
    /\ route.response.raised
    /\ route.decision = "vector"

\* the fixed answer of a route whose retrieval found nothing
NoRelevant(search_method) ==
    IF search_method = "vector" THEN "No relevant information found"
    ELSE "No relevant relationships found"

\* C11 as stated: a query of the simple service or of the standalone app
\* against an empty corpus (nothing ingested yet, or only documents that
\* gave no chunk and no triple) returns a success envelope whose answer is
\* the fixed "no relevant ... found" text of its route, with empty sources,
\* and never an error.
C11_EmptyCorpusQueryAnswered ==
    (Heuristic /\ reply.status # "none" /\ reply.empty)
        => /\ reply.status = "success"
           /\ reply.answer = NoRelevant(reply.search_method)
           /\ reply.sources = <<>>

\* C12 as stated: whatever the implementation and the route, a query whose
\* retrieval returned no passage and no matching triple is answered with
\* the fixed "no relevant ... found" text of its route and an empty evidence
\* list, and no generator call is made during that query.
C12_NoHitNoGeneration ==
    (reply.status = "success" /\ reply.hits = 0)
        => /\ reply.answer = NoRelevant(reply.search_method)
           /\ reply.sources = <<>>
           /\ reply.generated = 0

\* an evidence entry that says which passages were retrieved
IdentifiesPassages(source) ==
    \/ "chunk_ids" \in DOMAIN source
    \/ "chunk_id" \in DOMAIN source

\* C13 as stated: on the semantic route of the simple service and of the
\* standalone app, when the index returned at least one passage the answer
\* is built from a context made of the retrieved passages, and the evidence
\* is not empty and identifies the passages retrieved.
C13_SemanticAnswerFromPassages ==
    (Heuristic /\ reply.status = "success" /\ reply.search_method = "vector"
        /\ reply.hits >= 1)
        => /\ reply.facts # ""
           /\ reply.sources # <<>>
           /\ \A k \in DOMAIN reply.sources : IdentifiesPassages(reply.sources[k])

\* the triples of the in-memory relationship index, in stored order
StoredTriples ==
    IF svc = "simple" THEN relationships.list ELSE relationships_store

\* a predicate as a fact line shows it: lower case, spaces for underscores
Humanized(predicate) ==
    join("", [i \in 1..Len(predicate) |->
                 IF At(predicate, i) = "_" THEN " "
                 ELSE LowerChar(At(predicate, i))])

\* the bullet line of a triple: subject, humanized predicate, object
Fact(t) == join(" ", <<Bullet, t[1], Humanized(t[2]), t[3]>>)

\* an evidence entry that names the graph store
NamesGraphStore(source) ==
    \/ "source" \in DOMAIN source /\ source.source = "knowledge_graph"
    \/ "type" \in DOMAIN source /\ source.type = "graph"

\* the facts of reply r are the first five of the triples `matching`, one
\* bullet line each, in their order
FirstFiveFacts(r, matching) ==
    LET lines == split(r.facts, "\n")
    IN  /\ Len(lines) = Min({5, Len(matching)})
        /\ \A k \in 1..Len(lines) : lines[k] = Fact(matching[k])

\* the evidence of reply r names the graph store and counts `matching`
GraphEvidence(r, matching) ==
    /\ Len(r.sources) = 1
    /\ NamesGraphStore(r.sources[1])
    /\ r.sources[1].relationships = Len(matching)

\* the query step of the simple service or the standalone app that took the
\* relational route and found a matching triple
RelationalHit ==
    /\ Heuristic
    /\ queries' = queries + 1
    /\ reply'.status = "success"
    /\ reply'.search_method = "graph"
    /\ reply'.hits >= 1

\* C14 (as stated): on the relational route of the simple service and the
\* standalone app, with at least one matching triple, the facts put before
\* the generator, or into the fallback answer when no generator is
\* configured, are the first five matching triples in stored order, one
\* bullet line each (subject, predicate in lower case with spaces for
\* underscores, object), and the evidence names the graph store and gives
\* the number of all matching triples, a query whose generator call fails
\* included.
C14_EvidenceOnEveryRelationalHit ==
    [][RelationalHit =>
          LET matching == Relevant(StoredTriples, reply'.question)
          IN  /\ FirstFiveFacts(reply', matching)
              /\ GraphEvidence(reply', matching)]_vars

\* the answer of reply r is the text of a caught exception
ErrorText(r) ==
    \/ Contains(r.answer, "search error: ")
    \/ Contains(r.answer, "Error generating response: ")

\* the answer of reply r is the fixed lead-in followed by what was retrieved
BuiltFromRetrieved(r) ==
    IF r.search_method = "graph"
    THEN r.answer = "Based on the relationships:\n" \o r.facts
    ELSE r.answer = "Based on the available information: "
                        \o Slice(r.facts, 1, 300) \o "..."

\* C15 (as stated): with no generator configured (model is None), a query
\* of the simple service or the standalone app whose retrieval found at
\* least one passage or triple returns a non-empty answer built from the
\* retrieved context or facts, and never an error text.
C15_FallbackAnswerWithoutGenerator ==
    (Heuristic /\ model = "none" /\ reply.status = "success" /\ reply.hits >= 1)
        => /\ reply.answer # ""
           /\ ~ErrorText(reply)
           /\ reply.facts # ""
           /\ BuiltFromRetrieved(reply)

\* the two services with a query method; the standalone app answers in its
\* HTTP endpoint
ServiceLevel == svc \in {"full", "simple"}

\* the success envelope: answer, search_method and sources (a list that may
\* be empty), no message
SuccessEnvelope(r) ==
    /\ r.status = "success"
    /\ r.answer # ""
    /\ r.search_method \in {"vector", "graph"}
    /\ r.message = ""

\* the error envelope: a message, and neither answer nor route nor sources
\* (a key the dict does not have is the empty value of the record)
ErrorEnvelope(r) ==
    /\ r.status = "error"
    /\ r.message # ""
    /\ r.answer = ""
    /\ r.search_method = ""
    /\ r.sources = <<>>

\* C16: every call of query of the Neo4j-backed service and of the simple
\* service returns one envelope and raises nothing: either status success
\* with answer, search_method and sources, or status error with a message
\* and no answer, whatever failed in routing, retrieval or generation.
C16_QueryAlwaysReturnsEnvelope ==
    [][(ServiceLevel /\ queries' = queries + 1)
          => (SuccessEnvelope(reply') \/ ErrorEnvelope(reply'))]_vars

\* C16 witness: the chain of the Neo4j-backed service raised, and the call
\* returned the error envelope with the message of the handler.
C16_ChainFailureEnveloped ==
    /\ svc = "full"
    /\ queries >= 1
    /\ reply.status = "error"
    /\ reply.message = "Failed to process query: " \o ChainError
    /\ reply.answer = ""

\* a component of the extracted triple t is empty once it is trimmed and its
\* quotes are removed
EmptyAfterNormalization(t) ==
    \E k \in 1..3 : strip(replace(replace(t[k], "\"", ""), "'", "")) = ""

\* the loop of _store_triples_in_neo4j stands before extracted triple t
AboutToStore(t) ==
    /\ pc = "store"
    /\ run.j < Len(run.all_triples)
    /\ t = run.all_triples[run.j + 1]

\* C17 (as stated): every relationship persisted in the graph has a
\* non-empty subject, predicate and object, and an extracted triple with a
\* component that is empty after trimming and quote removal, such as a
\* predicate made only of quotes and spaces, is discarded: the turn of the
\* store loop that handles it writes nothing to the graph.
C17_EmptyComponentDiscarded ==
    [][/\ \A k \in DOMAIN graph'.edges : Storable(graph'.edges[k])
       /\ \A t \in {run.all_triples[k] : k \in DOMAIN run.all_triples} :
             (AboutToStore(t) /\ EmptyAfterNormalization(t))
                 => graph' = graph]_vars

\* ingest_data read its document and _chunk_text returned no chunk
EmptyChunkSequence ==
    /\ svc \in {"full", "simple"}
    /\ pc \notin {"idle"}
    /\ run.chunks = <<>>

\* the call of self.vectorstore.add_texts is made in this step
AddTextsRequest == pc = "add_texts" /\ pc' # "add_texts"

\* what the two indices of the service hold
IndexContents ==
    IF svc = "full" THEN <<vectorstore, graph>>
    ELSE <<collection, relationships.list>>

\* C18 (as stated): when chunking a readable document yields no chunk,
\* ingest_data does no further work - it issues no write request to the
\* semantic index or the relationship index, which stay as they are - and
\* returns status success with chunks_processed 0 and zero triples.
C18_EmptyChunkSequenceNoWork ==
    [][EmptyChunkSequence
          => /\ ~AddTextsRequest
             /\ IndexContents' = IndexContents
             /\ pc' = "idle"
                   => /\ report'.status = "success"
                      /\ report'.chunks_processed = 0
                      /\ report'.triples_extracted = 0]_vars

\* the entries of the semantic index of the service
SemanticIndex == IF svc = "full" THEN vectorstore ELSE collection

\* ingest_data of one of the two services has returned status success, and
\* nothing was ingested since
IngestSucceeded ==
    /\ svc \in {"full", "simple"}
    /\ pc = "idle"
    /\ run.phase = "done"
    /\ report.status = "success"
    /\ report.chunks_processed = Len(run.chunks)

\* entry e is chunk number i (counted from 0) of the document just ingested
EntryOfChunk(e, i) ==
    /\ e.text = run.chunks[i + 1]
    /\ IF svc = "full" THEN e.source = run.path /\ e.chunk_id = i
       ELSE e.metadata = [source |-> run.path, chunk_id |-> i]

\* C19 (as stated): after ingest_data returned status success with
\* chunks_processed = n, the semantic index holds for every i in 0..n-1 an
\* entry with the text of chunk i and the metadata source = the document's
\* path, chunk_id = i, and these entries lie in chunk order.
C19_EveryChunkInSemanticIndex ==
    IngestSucceeded
        => \E at \in [0..(Len(run.chunks) - 1) -> DOMAIN SemanticIndex] :
              /\ \A i \in DOMAIN at : EntryOfChunk(SemanticIndex[at[i]], i)
              /\ \A i, j \in DOMAIN at : i < j => at[i] < at[j]

\* the document of the example
Example == "FastAPI has routers. Routers enable organization."

\* a pattern-extraction pipeline has ingested the example document
ExampleIngested ==
    /\ Heuristic
    /\ pc = "idle"
    /\ run.phase = "done"
    /\ run.text = Example
    /\ report.status = "success"

\* C20 (as stated): ingesting the document "FastAPI has routers. Routers
\* enable organization." through the pattern-extraction pipeline (chunk,
\* then extract per chunk) leaves at least the triple (FastAPI, HAS,
\* routers) in the extracted relationships.
C20_ExampleYieldsTriple ==
    ExampleIngested
        => /\ <<"FastAPI", "HAS", "routers">> \in Range(run.all_triples)
           /\ <<"FastAPI", "HAS", "routers">> \in Range(StoredTriples)
           /\ report.triples_extracted >= 1

\* the chunk texts the semantic store of the implementation holds
HeldTexts ==
    IF svc = "full" THEN {vectorstore[k].text : k \in DOMAIN vectorstore}
    ELSE IF svc = "simple" THEN {collection[k].text : k \in DOMAIN collection}
    ELSE Range(chunks_store)

\* the chunk set of the ingestion call: the chunks its triples are
\* extracted from
SourceChunks == Range(run.chunks)

\* the step puts triples of the ingestion call into the relationship store
TriplesWritten ==
    \/ graph'.edges # graph.edges
    \/ relationships'.list # <<>> /\ relationships' # relationships
    \/ relationships_store' # <<>> /\ relationships_store' # relationships_store

\* C22 (as stated): the two indices are populated from the same chunk set:
\* whenever an ingestion call writes triples to the relationship store, the
\* chunks of the call, from which they were extracted, are held in the
\* semantic store, so that every stored triple comes from a chunk the
\* semantic store holds.
C22_TriplesOnlyFromStoredChunks ==
    [][TriplesWritten => SourceChunks' \subseteq HeldTexts']_vars

\* the ingestion call that returned last ended in failure
RunFailed ==
    /\ pc = "idle"
    /\ run.error # ""
    /\ report.status \in {"error", "http_error"}

\* C28 (as stated): an ingestion run that ends in failure leaves the
\* relationship store exactly as it was before the run started: no triple
\* of the failed run is in it and no triple of an earlier run is lost.
C28_FailedRunLeavesRelationshipStore ==
    RunFailed => IndexOf(Stores) = IndexOf(run.before)

\* the standalone app answered POST /ingest for a data file that is missing
MissingFileAnswered ==
    /\ svc = "standalone"
    /\ RunFailed
    /\ run.path \notin Readable

\* the standalone app answered POST /query with an HTTP error; the one its
\* handler raises on purpose is that of the empty chunks_store
QueryRefused ==
    /\ svc = "standalone"
    /\ reply.status = "http_error"

\* C29 (as stated): an HTTP error raised on purpose inside an endpoint
\* handler reaches the client with its own status code: the ingest endpoint
\* answers a missing data file with 404, and the standalone app answers a
\* query sent before any successful ingestion with 400.
C29_OwnStatusCodeReachesClient ==
    /\ MissingFileAnswered => report.code = 404
    /\ QueryRefused => reply.code = 400

\* a retrieval call or the generator call of the simple service's query
\* raised: the handlers of _vector_search and _graph_search leave the text of
\* the exception in the answer
RaisedDuringQuery ==
    /\ svc = "simple"
    /\ reply.status # "none"
    /\ \/ reply.answer = "Vector search error: " \o AttributeError
       \/ reply.answer = "Vector search error: " \o ChromaError
       \/ reply.answer = "Graph search error: " \o GeminiError
       \/ reply.status = "error"

\* C30 (as stated): in the simple service, whenever retrieval or the
\* generator call raises during a query, the envelope returned by query()
\* has status error with a message, and an envelope with status success
\* never carries an error description as its answer.
C30_RaisedQueryReturnsErrorEnvelope ==
    /\ RaisedDuringQuery => (reply.status = "error" /\ reply.message # "")
    /\ (svc = "simple" /\ reply.status = "success") => ~ErrorText(reply)

(***************************************************************************)
(* The chunkers, the pattern extractors, the matching loop and the         *)
(* ingestion script, each run on its own                                   *)
(***************************************************************************)
\* paragraphs at the minimum length of the structural chunkers
Fifty    == "FastAPI has routers. Routers enable organizations."
FiftyOne == "FastAPI uses Pydantic. Pydantic provides validation"

\* a paragraph of 442 characters, one of 524, and the latter as one sentence
Paragraph442 == Paragraph1 \o " " \o Paragraph2 \o " " \o Paragraph3 \o " " \o Fifty
Paragraph524 == Paragraph1 \o " " \o Paragraph2 \o " " \o Paragraph3 \o " " \o Paragraph1
Sentence524  == replace(Paragraph524, ". ", ", ")

\* the texts handed to the chunkers
Documents == {
    "",
    " \n\n \n",
    Files.tiny,
    Fifty,
    FiftyOne,
    "  " \o Fifty \o " \n",
    "  " \o Files.tiny \o "   ",
    Fifty \o "\n\n" \o Files.tiny \o "\n\n" \o FiftyOne,
    Files.two,
    Files.long,
    Paragraph442,
    Paragraph524,
    Sentence524,
    FiftyOne \o "\n\n" \o Sentence524 }

\* the texts handed to the pattern extractors
Sentences == {
    "",
    Files.tiny,
    "Routers are an abstraction and Pydantic IS a library.",
    "Plugins have hooks; FastAPI Uses Starlette, it use it.",
    "Pydantic provides validation and includes validators.",
    "Starlette supports WebSocket. We are an open team.",
    "FastAPI\nhas\trouters, routers include paths, apps support events",
    "This chassis uses isolators; the housing has areas.",
    Paragraph1,
    Paragraph2 }

\* the relationship lists and the questions handed to the matching loop
TripleLists == {
    <<>>,
    <<<<"FastAPI", "HAS", "routers">>, <<"router", "HAS", "its">>,
      <<"Pydantic", "PROVIDES", "validation">>>>,
    <<<<"Starlette", "SUPPORTS", "WebSocket">>, <<"FastAPI", "USES", "Pydantic">>,
      <<"routers", "INCLUDES", "path">>>> }

UnitQuestions == {
    "How does FastAPI relate to Pydantic?",
    "what has a router",
    "Which star uses sockets",
    "hello" }

\* `hybrid_rag_service = None`: the module global ingestion.py imports by name
hybrid_rag_service == "None"

\* the dicts ingest_data can return to the script
Results == {SuccessReport(<<"chunk">>, <<>>, "ok"), ErrorReport(AddError)}

\* main() of ingestion.py: the status the process ends with, and whether
\* ingest_data of a service object was called. sys.exit raises SystemExit,
\* which `except Exception` lets through; the call of a method on None raises
\* AttributeError, which it catches.
main(exists, result) ==
    IF ~exists THEN [called |-> FALSE, exit_status |-> 1]
    ELSE IF hybrid_rag_service = "None" THEN [called |-> FALSE, exit_status |-> 1]
    ELSE [called |-> TRUE,
          exit_status |-> IF result.status = "success" THEN 0 ELSE 1]

\* the chunker of the implementation
chunk_text(text) ==
    IF svc = "full" THEN Full_chunk_text(text)
    ELSE IF svc = "simple" THEN Simple_chunk_text(text)
    ELSE Standalone_chunk_text(text)

\* the pattern extractor of the implementation
extract_relationships(text) ==
    IF svc = "simple" THEN Simple_extract_relationships_simple(text)
    ELSE Standalone_extract_relationships(text)

\* the state before a unit runs: nothing ingested, nothing asked, and no
\* table of calls, since the unit itself is the call
UnitStart(step, implementations) ==
    /\ calls = <<>>
    /\ svc \in implementations
    /\ llm = (IF svc = "full" THEN "fake" ELSE "none")
    /\ collection_ok = FALSE
    /\ model = "none"
    /\ fake_i = 0
    /\ vectorstore = <<>>
    /\ graph = EmptyGraph
    /\ collection = <<>>
    /\ relationships = [set |-> FALSE, list |-> <<>>]
    /\ chunks_store = <<>>
    /\ relationships_store = <<>>
    /\ pc = step
    /\ prev = NoPrev
    /\ report = NoReport
    /\ runs = 0
    /\ returned = 0
    /\ queries = 0
    /\ route = NoRoute
    /\ routed = {}
    /\ reply = NoReply
    /\ embedded = NoEmbedded

UnitInit ==
    \/ /\ UnitStart("chunk", {"full", "simple", "standalone"})
       /\ \E text \in Documents : run = [NoRun EXCEPT !.text = text]
       /\ unit = NoUnit
    \/ /\ UnitStart("extract", {"simple", "standalone"})
       /\ \E text \in Sentences : run = [NoRun EXCEPT !.text = text]
       /\ unit = NoUnit
    \/ /\ UnitStart("match", {"simple", "standalone"})
       /\ \E triples \in TripleLists : run = [NoRun EXCEPT !.all_triples = triples]
       /\ \E question \in UnitQuestions : unit = [NoUnit EXCEPT !.question = question]
    \/ /\ UnitStart("main", {"full"})
       /\ run = NoRun
       /\ \E exists \in BOOLEAN : unit = [NoUnit EXCEPT !.exists = exists]

unit_frame == <<calls, svc, llm, fake_i, vectorstore, graph, collection_ok,
                collection, relationships, chunks_store, relationships_store,
                prev, report, runs, returned, queries, route, routed, model,
                reply, embedded>>

\* _chunk_text / chunk_text on run.text
UnitChunk ==
    /\ pc = "chunk"
    /\ run' = [run EXCEPT !.chunks = chunk_text(run.text), !.phase = "chunked"]
    /\ pc' = "done"
    /\ UNCHANGED <<unit_frame, unit>>

\* _extract_relationships_simple / extract_relationships on run.text
UnitExtract ==
    /\ pc = "extract"
    /\ run' = [run EXCEPT !.all_triples = extract_relationships(run.text),
                          !.phase = "extracted"]
    /\ pc' = "done"
    /\ UNCHANGED <<unit_frame, unit>>

\* the matching loop of _graph_search / graph_search over run.all_triples
UnitMatch ==
    /\ pc = "match"
    /\ unit' = [unit EXCEPT !.relevant = Relevant(run.all_triples, unit.question)]
    /\ run' = [run EXCEPT !.phase = "matched"]
    /\ pc' = "done"
    /\ UNCHANGED unit_frame

\* python ingestion.py
UnitMain ==
    /\ pc = "main"
    /\ \E result \in Results :
          LET end == main(unit.exists, result)
          IN  unit' = [unit EXCEPT
                           !.called = end.called,
                           !.exit_status = end.exit_status,
                           !.returned_status =
                               IF end.called THEN result.status ELSE "none"]
    /\ run' = [run EXCEPT !.phase = "exited"]
    /\ pc' = "done"
    /\ UNCHANGED unit_frame

UnitNext ==
    \/ UnitChunk
    \/ UnitExtract
    \/ UnitMatch
    \/ UnitMain

UnitSpec == UnitInit /\ [][UnitNext]_vars

\* the characters of s that are not whitespace, in their order
NonWhitespace(s) ==
    LET Inked(c) == ~IsSpaceChar(c)
    IN  SelectSeq(CharList(s), Inked)

\* the characters `needle` occur in `hay` in the same order (other
\* characters may lie in between)
OccursInOrder(needle, hay) ==
    LET Step(at, c) ==
            IF at < 0 THEN at
            ELSE IF \E j \in (at + 1)..Len(hay) : hay[j] = c
            THEN CHOOSE j \in (at + 1)..Len(hay) :
                     /\ hay[j] = c
                     /\ \A k \in (at + 1)..(j - 1) : hay[k] # c
            ELSE -1
    IN  FoldLeft(Step, 0, needle) >= 0

\* a chunker has run on run.text
Chunked == pc = "done" /\ run.phase = "chunked"

\* C21 (as stated): chunk coverage - for every source text every
\* non-whitespace character of the text occurs in the chunk sequence the
\* chunker returns: the chunks, one after the other, hold all non-whitespace
\* characters of the document in their order.
C21_ChunkCoverage ==
    Chunked => OccursInOrder(NonWhitespace(run.text),
                             NonWhitespace(join("", run.chunks)))

\* the length above which the structural chunker of the implementation
\* re-splits a paragraph
MaxLength == IF svc = "simple" THEN 500 ELSE 400

\* a structural chunker has run on a text of one paragraph that is not
\* above the maximum length
OneParagraphChunked ==
    /\ Chunked
    /\ svc \in {"simple", "standalone"}
    /\ ~Contains(run.text, "\n\n")
    /\ Len(run.text) <= MaxLength

\* C24 (as stated): the structural chunker discards a paragraph only when
\* its trimmed length is below the minimum of 50 characters: a paragraph of
\* trimmed length 50 or more is emitted as one chunk, one of trimmed length
\* 49 or less is dropped.
C24_MinimumLengthFifty ==
    OneParagraphChunked
        => IF Len(strip(run.text)) >= 50
           THEN run.chunks = <<strip(run.text)>>
           ELSE run.chunks = <<>>

\* a structural chunker has run
StructurallyChunked == Chunked /\ svc \in {"simple", "standalone"}

\* C25 (as stated): every chunk the structural chunker emits, the ones made
\* by re-splitting a paragraph longer than the maximum length included, is
\* no longer than that maximum (500 characters in the simple service, 400 in
\* the standalone app), whatever the lengths of the paragraph's sentences.
C25_SubChunksWithinMaximum ==
    StructurallyChunked
        => \A k \in DOMAIN run.chunks : Len(run.chunks[k]) <= MaxLength

\* the entity and the question have a token in common
SharesToken(entity, question) ==
    WordSet(lower(entity)) \cap WordSet(lower(question)) # {}

\* the triples of a list whose subject or object shares a token with the
\* question
TokenMatches(rels, question) ==
    LET Shares(t) == \/ SharesToken(t[1], question)
                     \/ SharesToken(t[3], question)
    IN  SelectSeq(rels, Shares)

\* the matching loop of a graph search has run over a list of stored triples
Matched == pc = "done" /\ run.phase = "matched"

\* C23 (as stated): a stored triple is selected on the relational route
\* exactly when its subject or its object shares a token with the lower-cased
\* whitespace-separated words of the question; a triple none of whose
\* entities equals a question word is not selected.
C23_SelectedIffSharedToken ==
    Matched => unit.relevant = TokenMatches(run.all_triples, unit.question)

\* a pattern extractor has run on a text
Extracted == pc = "done" /\ run.phase = "extracted"

\* the predicates of a list of triples
Predicates(triples) == {triples[k][2] : k \in DOMAIN triples}

\* the triple comes from a match of a template whose verb family has the
\* triple's predicate as its canonical predicate
FromTemplateOfFamily(triple, text) ==
    \E k \in DOMAIN Patterns :
        /\ Patterns[k].relation = triple[2]
        /\ \E match \in Range(finditer(Patterns[k], text)) :
               /\ strip(match.g1) = triple[1]
               /\ strip(match.g2) = triple[3]

\* C26: pattern-based extraction gives every emitted triple the canonical
\* predicate of the verb family of the template that matched (is/are IS_A,
\* has/have HAS, uses/use USES, provides/provide PROVIDES, includes/include
\* INCLUDES, supports/support SUPPORTS), and the simple service, which
\* derives the predicate from substring tests on the template's text, and
\* the standalone app, which tables it, return the same triples for the same
\* text.
C26_SamePredicatesBothExtractors ==
    Extracted
        => /\ run.all_triples = Simple_extract_relationships_simple(run.text)
           /\ run.all_triples = Standalone_extract_relationships(run.text)
           /\ \A k \in DOMAIN run.all_triples :
                  FromTemplateOfFamily(run.all_triples[k], run.text)

\* the simple service has extracted triples of the is/are family and of two
\* more families from one text
C26_SimpleExtractsThreeFamilies ==
    /\ Extracted
    /\ svc = "simple"
    /\ "IS_A" \in Predicates(run.all_triples)
    /\ Cardinality(Predicates(run.all_triples)) >= 3

\* main() of the ingestion script has ended
MainEnded == pc = "done" /\ run.phase = "exited"

\* C27 (as stated): when data.txt exists, main() calls ingest_data on an
\* initialized service, and it ends without exit status 1 exactly when the
\* report that call returned has status success.
C27_ScriptIngestsDataFile ==
    MainEnded
        => /\ unit.exists => unit.called
           /\ unit.exit_status # 1 <=> unit.returned_status = "success"
====
